---- MODULE Spec2Model ----
(***************************************************************************)
(* Model of the two Blender automation scripts of mandelbrodin:            *)
(*   create_3d_from_heightmap.py  (the scene builder, main())              *)
(*   render_preview.py            (the preview renderer, render_preview()) *)
(* The state is the host document the scripts drive through bpy (objects,  *)
(* data blocks, images, the scene's world, camera and render settings),    *)
(* the files on disk, and the position and locals of the running script.   *)
(***************************************************************************)
EXTENDS Integers, Sequences, FiniteSets, TLC

VARIABLES
    pc,                 \* next statement of the running script
    runs,               \* number of times main() has been entered
    files,              \* paths that exist on disk (os.path.exists)
    filepath,           \* argument of the last load_image call
    image,              \* value returned by the last load_image call (None or an image)
    images,             \* bpy.data.images
    objects,            \* the objects of the scene
    active,             \* bpy.context.active_object (index into objects, 0 = none)
    meshes,             \* number of entries of bpy.data.meshes
    materials,          \* number of entries of bpy.data.materials
    textures,           \* names in bpy.data.textures
    mode,               \* OBJECT or EDIT
    subdivision_level,  \* parameters of create_heightmap_mesh
    displacement_strength,
    plane_size,
    plane,              \* the plane built by create_heightmap_mesh (None or its data)
    nodes,              \* material.node_tree.nodes
    links,              \* material.node_tree.links
    node_vars,          \* node_output, node_bsdf, node_image, node_colorramp
    camera,             \* the camera built by setup_camera (None or its data)
    light_data,         \* light name -> energy, rotation
    scene_camera,       \* bpy.context.scene.camera (None or an object name)
    world,              \* bpy.context.scene.world (None or a world)
    render,             \* scene.render, scene.cycles, scene.eevee settings
    saved,              \* the document as last written by save_as_mainfile
    save_count,         \* save_as_mainfile calls in the current run
    done_steps,         \* the steps of main() completed in the current run
    first_counts,       \* object counts at the end of the first run with the image present
    loaded,             \* render settings of the document as the host loaded it
    renders,            \* the stills written by bpy.ops.render.render
    loads,              \* load_image calls made outside main()
    passes              \* subdivide passes done by the loop of create_heightmap_mesh

vars == << pc, runs, files, filepath, image, images, objects, active, meshes,
           materials, textures, mode, subdivision_level, displacement_strength,
           plane_size, plane, nodes, links, node_vars, camera, light_data,
           scene_camera, world, render, saved, save_count, done_steps,
           first_counts, loaded, renders, loads, passes >>

docVars == << objects, active, meshes, materials, textures, mode, plane, nodes,
              links, node_vars, camera, light_data, scene_camera, world, passes >>
paramVars == << subdivision_level, displacement_strength, plane_size >>
histVars == << saved, save_count, first_counts >>

----------------------------------------------------------------------------
(* Bounds of the model *)
MaxInitObjects == 2     \* objects in the document main() starts on
MaxOrphans == 1         \* mesh / material data blocks without an object
MaxRuns == 2            \* times main() is run in a row
MaxLevel == 5           \* subdivision levels tried for create_heightmap_mesh
MaxLoads == 3           \* load_image calls in a row

(* Configuration of create_3d_from_heightmap.py *)
IMAGE_FILENAME == "mandelbrot2d.png"
SUBDIVISION_LEVEL == 8
DISPLACEMENT_STRENGTH == 2
PLANE_SIZE == 10

(* Configuration of render_preview.py *)
OUTPUT_FILENAME == "mandelbrot_3d_preview.png"
RENDER_SAMPLES == 64

(* Python's None, and an optional value *)
None == << >>
Some(v) == << v >>
The(opt) == opt[1]

(* Path(__file__).parent, and script_dir / name *)
script_dir == << "scripts" >>
Join(dir, name) == Append(dir, name)
image_path == Join(script_dir, IMAGE_FILENAME)
blend_filepath == Join(script_dir, "mandelbrot_3d_scene.blend")
output_path == Join(script_dir, OUTPUT_FILENAME)

(* os.path.basename: the last component of a path *)
basename(p) == p[Len(p)]

----------------------------------------------------------------------------
(* main(): the order of its calls *)

step_after(steps, s) ==
    LET k == CHOOSE j \in 1..Len(steps) : steps[j] = s
    IN  IF k = Len(steps) THEN "done" ELSE steps[k + 1]

\* main() saving the document before the render settings are configured
next_step_saves_early(s) ==
    step_after(<< "clear_scene", "load_image", "create_heightmap_mesh",
                  "setup_camera", "setup_lighting", "setup_world",
                  "save_as_mainfile", "configure_render_settings" >>, s)

next_step(s) ==
    step_after(<< "clear_scene", "load_image", "create_heightmap_mesh",
                  "setup_camera", "setup_lighting", "setup_world",
                  "configure_render_settings", "save_as_mainfile" >>, s)

\* the number of scene objects of each kind
CountType(objs, t) == Len(SelectSeq(objs, LAMBDA o : o.type = t))
Counts(objs) == [t \in { "MESH", "CAMERA", "LIGHT" } |-> CountType(objs, t)]

\* bookkeeping: the counts the first run with the image present ends with
FirstCounts(fc, objs) == IF fc = None THEN Some(Counts(objs)) ELSE fc

----------------------------------------------------------------------------
(* clear_scene *)

\* bpy.ops.object.select_all(action='SELECT')
select_all(objs) == [k \in 1..Len(objs) |-> [objs[k] EXCEPT !.select = TRUE]]

\* bpy.ops.object.delete(use_global=False): the selected objects leave the scene
delete(objs) == SelectSeq(objs, LAMBDA o : ~o.select)

\* for block in collection: collection.remove(block)
\* (the collection iterator steps to the next entry before the body runs,
\*  so every entry is visited)
RECURSIVE remove_each_skipping(_)
remove_each_skipping(n) == IF n <= 1 THEN 0 ELSE 1 + remove_each_skipping(n - 2)

RECURSIVE remove_each(_)
remove_each(n) == IF n = 0 THEN 0 ELSE remove_each(n - 1)

ObjectNames(objs) == { objs[k].name : k \in 1..Len(objs) }

\* a pointer to a deleted object is cleared by the host
Unlinked(ptr, objs) ==
    IF ptr # None /\ The(ptr) \in ObjectNames(objs) THEN ptr ELSE None

clear_scene_keep_unselected(objs) == delete(objs)

clear_objects(objs) == delete(select_all(objs))

clear_scene ==
    /\ pc = "clear_scene"
    /\ objects' = clear_objects(objects)
    /\ active' = 0
    /\ scene_camera' = Unlinked(scene_camera, objects')
    /\ meshes' = remove_each(meshes)
    /\ materials' = remove_each(materials)
    /\ plane' = None
    /\ camera' = None
    /\ light_data' = << >>
    /\ nodes' = {}
    /\ links' = {}
    /\ node_vars' = None
    /\ passes' = 0
    /\ done_steps' = Append(done_steps, "clear_scene")
    /\ pc' = next_step("clear_scene")
    /\ UNCHANGED << runs, files, filepath, image, images, textures, mode, world,
                    render, paramVars, histVars, loaded, renders, loads >>

----------------------------------------------------------------------------
(* load_image *)

ImageNames(imgs) == { imgs[k].name : k \in 1..Len(imgs) }

\* the host makes the name of a new data block unique with a numeric suffix
Suffixes == << "", ".001", ".002", ".003", ".004", ".005" >>
UniqueName(name, taken) ==
    LET k == CHOOSE j \in 1..Len(Suffixes) :
                 /\ (name \o Suffixes[j]) \notin taken
                 /\ \A h \in 1..(j - 1) : (name \o Suffixes[h]) \in taken
    IN  name \o Suffixes[k]

\* bpy.data.images.load(filepath)
images_load(imgs, fp) ==
    Append(imgs, [name |-> UniqueName(basename(fp), ImageNames(imgs)),
                  filepath |-> fp])

\* bpy.data.images[image_name]
images_get(imgs, image_name) ==
    imgs[CHOOSE k \in 1..Len(imgs) : imgs[k].name = image_name]

\* load_image without the lookup of an already-loaded image
load_image_always_loads(fp, disk, imgs) ==
    IF fp \notin disk
    THEN [image |-> None, images |-> imgs]
    ELSE LET new == images_load(imgs, fp)
         IN  [image |-> Some(new[Len(new)]), images |-> new]

\* load_image(filepath): the returned image and bpy.data.images afterwards
load_image(fp, disk, imgs) ==
    IF fp \notin disk
    THEN [image |-> None, images |-> imgs]
    ELSE LET image_name == basename(fp)
         IN  IF image_name \in ImageNames(imgs)
             THEN [image |-> Some(images_get(imgs, image_name)), images |-> imgs]
             ELSE LET new == images_load(imgs, fp)
                  IN  [image |-> Some(new[Len(new)]), images |-> new]

\* main(): "if not image: return"
after_load_never_returns(img) == next_step("load_image")

after_load(img) == IF img = None THEN "returned" ELSE next_step("load_image")

main_load_image ==
    /\ pc = "load_image"
    /\ filepath' = Some(image_path)
    /\ LET r == load_image(image_path, files, images)
       IN  /\ image' = r.image
           /\ images' = r.images
    /\ done_steps' = Append(done_steps, "load_image")
    /\ pc' = after_load(image')
    /\ UNCHANGED << runs, files, docVars, render, paramVars, histVars, loaded,
                    renders, loads >>

----------------------------------------------------------------------------
(* create_heightmap_mesh *)

\* bpy.ops.*_add: the new object is the only selected one and becomes active
add_object(objs, type, name, location) ==
    Append([k \in 1..Len(objs) |-> [objs[k] EXCEPT !.select = FALSE]],
           [type |-> type, name |-> name, select |-> TRUE, location |-> location])

\* the mesh of primitive_plane_add: one quad
plane_geometry == [verts |-> 4, edges |-> 4, faces |-> 1]

plane_add ==
    /\ pc = "create_heightmap_mesh"
    /\ objects' = add_object(objects, "MESH", "Mandelbrot_Heightmap", << 0, 0, 0 >>)
    /\ active' = Len(objects')
    /\ meshes' = meshes + 1
    /\ plane' = Some([size |-> plane_size, geom |-> plane_geometry,
                      selected |-> FALSE, modifiers |-> << >>,
                      materials |-> << >>])
    /\ pc' = "subsurf"
    /\ UNCHANGED << runs, files, filepath, image, images, materials, textures,
                    mode, nodes, links, node_vars, camera, light_data,
                    scene_camera, world, passes, render, paramVars, histVars,
                    done_steps, loaded, renders, loads >>

subsurf ==
    /\ pc = "subsurf"
    /\ plane' = Some([The(plane) EXCEPT !.modifiers =
                        Append(@, [name |-> "Subdivision", type |-> "SUBSURF",
                                   levels |-> 2, render_levels |-> 3])])
    /\ pc' = "edit_mode"
    /\ UNCHANGED << runs, files, filepath, image, images, objects, active, meshes,
                    materials, textures, mode, nodes, links, node_vars, camera,
                    light_data, scene_camera, world, passes, render, paramVars,
                    histVars, done_steps, loaded, renders, loads >>

\* mode_set(mode='EDIT'); mesh.select_all(action='SELECT')
edit_mode ==
    /\ pc = "edit_mode"
    /\ mode' = "EDIT"
    /\ plane' = Some([The(plane) EXCEPT !.selected = TRUE])
    /\ passes' = 0
    /\ pc' = "subdivide"
    /\ UNCHANGED << runs, files, filepath, image, images, objects, active, meshes,
                    materials, textures, nodes, links, node_vars, camera,
                    light_data, scene_camera, world, render, paramVars, histVars,
                    done_steps, loaded, renders, loads >>

\* a subdivide pass that cuts the edges but adds no vertex inside the faces
mesh_subdivide_edges_only(g, selected) ==
    IF selected
    THEN [verts |-> g.verts + g.edges, edges |-> 2 * g.edges + 4 * g.faces,
          faces |-> 4 * g.faces]
    ELSE g

\* bpy.ops.mesh.subdivide() with one cut on the selected quads: every edge gets
\* a midpoint, every face a centre joined to the midpoints of its four edges
mesh_subdivide(g, selected) ==
    IF selected
    THEN [verts |-> g.verts + g.edges + g.faces,
          edges |-> 2 * g.edges + 4 * g.faces,
          faces |-> 4 * g.faces]
    ELSE g

\* for _ in range(subdivision_level): bpy.ops.mesh.subdivide()
subdivide ==
    /\ pc = "subdivide"
    /\ passes < subdivision_level
    /\ plane' = Some([The(plane) EXCEPT
                        !.geom = mesh_subdivide(@, The(plane).selected)])
    /\ passes' = passes + 1
    /\ UNCHANGED << pc, runs, files, filepath, image, images, objects, active,
                    meshes, materials, textures, mode, nodes, links, node_vars,
                    camera, light_data, scene_camera, world, render, paramVars,
                    histVars, done_steps, loaded, renders, loads >>

object_mode ==
    /\ pc = "subdivide"
    /\ passes >= subdivision_level
    /\ mode' = "OBJECT"
    /\ pc' = "material"
    /\ UNCHANGED << runs, files, filepath, image, images, objects, active, meshes,
                    materials, textures, plane, nodes, links, node_vars, camera,
                    light_data, scene_camera, world, passes, render, paramVars,
                    histVars, done_steps, loaded, renders, loads >>

NodeNames(ns) == { n.name : n \in ns }

\* the node tree the host gives a material when use_nodes is switched on
default_nodes ==
    { [name |-> "Principled BSDF", type |-> "ShaderNodeBsdfPrincipled",
       location |-> << 10, 300 >>, metallic |-> "0.0", roughness |-> "0.5",
       image |-> None],
      [name |-> "Material Output", type |-> "ShaderNodeOutputMaterial",
       location |-> << 300, 300 >>, metallic |-> "", roughness |-> "",
       image |-> None] }
default_links ==
    { [from_node |-> "Principled BSDF", from_socket |-> "BSDF",
       to_node |-> "Material Output", to_socket |-> "Surface"] }

\* bpy.data.materials.new; material.use_nodes = True; plane.data.materials.append
material ==
    /\ pc = "material"
    /\ materials' = materials + 1
    /\ nodes' = default_nodes
    /\ links' = default_links
    /\ plane' = Some([The(plane) EXCEPT
                        !.materials = Append(@, "Mandelbrot_Material")])
    /\ pc' = "nodes_clear"
    /\ UNCHANGED << runs, files, filepath, image, images, objects, active, meshes,
                    textures, mode, node_vars, camera, light_data, scene_camera,
                    world, passes, render, paramVars, histVars, done_steps,
                    loaded, renders, loads >>

\* nodes.clear()
nodes_cleared(ns) == {}

\* a link goes when a node at either end goes
links_between(ls, ns) ==
    { l \in ls : l.from_node \in NodeNames(ns) /\ l.to_node \in NodeNames(ns) }

nodes_clear ==
    /\ pc = "nodes_clear"
    /\ nodes' = nodes_cleared(nodes)
    /\ links' = links_between(links, nodes')
    /\ pc' = "nodes_new"
    /\ UNCHANGED << runs, files, filepath, image, images, objects, active, meshes,
                    materials, textures, mode, plane, node_vars, camera,
                    light_data, scene_camera, world, passes, render, paramVars,
                    histVars, done_steps, loaded, renders, loads >>

\* nodes.new(type=...), then the attributes the script sets on the node
node_new(ns, type, label, location, metallic, roughness, img) ==
    [name |-> UniqueName(label, NodeNames(ns)), type |-> type,
     location |-> location, metallic |-> metallic, roughness |-> roughness,
     image |-> img]

nodes_new ==
    /\ pc = "nodes_new"
    /\ LET node_output == node_new(nodes, "ShaderNodeOutputMaterial",
                                   "Material Output", << 400, 0 >>, "", "", None)
           ns1 == nodes \cup { node_output }
           node_bsdf == node_new(ns1, "ShaderNodeBsdfPrincipled",
                                 "Principled BSDF", << 0, 0 >>, "0.3", "0.4", None)
           ns2 == ns1 \cup { node_bsdf }
           node_image == node_new(ns2, "ShaderNodeTexImage", "Image Texture",
                                  << -400, 0 >>, "", "", image)
           ns3 == ns2 \cup { node_image }
           node_colorramp == node_new(ns3, "ShaderNodeValToRGB", "Color Ramp",
                                      << -200, -300 >>, "", "", None)
       IN  /\ nodes' = ns3 \cup { node_colorramp }
           /\ node_vars' = Some([node_output |-> node_output.name,
                                 node_bsdf |-> node_bsdf.name,
                                 node_image |-> node_image.name,
                                 node_colorramp |-> node_colorramp.name])
    /\ pc' = "links_new"
    /\ UNCHANGED << runs, files, filepath, image, images, objects, active, meshes,
                    materials, textures, mode, plane, links, camera, light_data,
                    scene_camera, world, passes, render, paramVars, histVars,
                    done_steps, loaded, renders, loads >>

\* links.new(output_socket, input_socket): an input socket holds one link
link_new(ls, from_node, from_socket, to_node, to_socket) ==
    { l \in ls : ~(l.to_node = to_node /\ l.to_socket = to_socket) }
      \cup { [from_node |-> from_node, from_socket |-> from_socket,
              to_node |-> to_node, to_socket |-> to_socket] }

\* the links with the colour ramp wired between the texture and the shader
connect_nodes_through_ramp(ls, nv) ==
    link_new(link_new(link_new(ls, nv.node_image, "Color", nv.node_colorramp, "Fac"),
                      nv.node_colorramp, "Color", nv.node_bsdf, "Base Color"),
             nv.node_bsdf, "BSDF", nv.node_output, "Surface")

\* the two links.new calls of create_heightmap_mesh
connect_nodes(ls, nv) ==
    link_new(link_new(ls, nv.node_image, "Color", nv.node_bsdf, "Base Color"),
             nv.node_bsdf, "BSDF", nv.node_output, "Surface")

links_new ==
    /\ pc = "links_new"
    /\ links' = connect_nodes(links, The(node_vars))
    /\ pc' = "displace"
    /\ UNCHANGED << runs, files, filepath, image, images, objects, active, meshes,
                    materials, textures, mode, plane, nodes, node_vars, camera,
                    light_data, scene_camera, world, passes, render, paramVars,
                    histVars, done_steps, loaded, renders, loads >>

TextureNames(ts) == { t.name : t \in ts }

\* the displacement modifier and its texture; return plane
displace ==
    /\ pc = "displace"
    /\ LET texture == [name |-> UniqueName("Mandelbrot_Displacement",
                                           TextureNames(textures)),
                       type |-> "IMAGE", image |-> image]
       IN  /\ textures' = textures \cup { texture }
           /\ plane' = Some([The(plane) EXCEPT !.modifiers =
                               Append(@, [name |-> "Displace", type |-> "DISPLACE",
                                          strength |-> displacement_strength,
                                          mid_level |-> "0.0",
                                          texture |-> texture.name,
                                          texture_coords |-> "UV"])])
    /\ done_steps' = Append(done_steps, "create_heightmap_mesh")
    /\ pc' = next_step("create_heightmap_mesh")
    /\ UNCHANGED << runs, files, filepath, image, images, objects, active, meshes,
                    materials, mode, nodes, links, node_vars, camera, light_data,
                    scene_camera, world, passes, render, paramVars, histVars,
                    loaded, renders, loads >>

create_heightmap_mesh ==
    \/ plane_add
    \/ subsurf
    \/ edit_mode
    \/ subdivide
    \/ object_mode
    \/ material
    \/ nodes_clear
    \/ nodes_new
    \/ links_new
    \/ displace

----------------------------------------------------------------------------
(* setup_camera, setup_lighting, setup_world, configure_render_settings *)

\* mathutils.Vector subtraction
VecSub(a, b) == << a[1] - b[1], a[2] - b[2], a[3] - b[3] >>

ObjectNamed(objs, name) == objs[CHOOSE k \in 1..Len(objs) : objs[k].name = name]

camera_location == << 15, -15, 10 >>

\* setup_camera(plane)
setup_camera ==
    /\ pc = "setup_camera"
    /\ IF plane = None
       THEN \* target_object.location on a target that was never built
            /\ pc' = "raised"
            /\ first_counts' = FirstCounts(first_counts, objects)
            /\ UNCHANGED << objects, active, camera, scene_camera, done_steps >>
       ELSE /\ objects' = add_object(objects, "CAMERA", "Camera", camera_location)
            /\ active' = Len(objects')
            /\ LET target_object == ObjectNamed(objects, "Mandelbrot_Heightmap")
                   direction == VecSub(target_object.location, camera_location)
               IN  camera' = Some([direction |-> direction,
                                   track |-> << "-Z", "Y" >>,
                                   lens |-> 50, clip_end |-> 1000])
            /\ scene_camera' = Some("Camera")
            /\ done_steps' = Append(done_steps, "setup_camera")
            /\ pc' = next_step("setup_camera")
            /\ UNCHANGED first_counts
    /\ UNCHANGED << runs, files, filepath, image, images, meshes, materials,
                    textures, mode, plane, nodes, links, node_vars, light_data,
                    world, passes, render, paramVars, saved, save_count, loaded,
                    renders, loads >>

\* the key, fill and rim lights of setup_lighting, in the order they are added
three_point_lights ==
    << [name |-> "Key_Light", type |-> "SUN", location |-> << 10, -10, 15 >>,
        energy |-> "3.0", rotation_euler |-> << "0.8", "0", "0.7" >>],
       [name |-> "Fill_Light", type |-> "SUN", location |-> << -5, 5, 8 >>,
        energy |-> "1.5", rotation_euler |-> << "1.0", "0", "-0.5" >>],
       [name |-> "Rim_Light", type |-> "SUN", location |-> << -10, 10, 5 >>,
        energy |-> "2.0", rotation_euler |-> << "1.2", "0", "-2.0" >>] >>

RECURSIVE add_lights(_, _)
add_lights(objs, ls) ==
    IF ls = << >> THEN objs
    ELSE add_lights(add_object(objs, "LIGHT", Head(ls).name, Head(ls).location),
                    Tail(ls))

setup_lighting ==
    /\ pc = "setup_lighting"
    /\ objects' = add_lights(objects, three_point_lights)
    /\ active' = Len(objects')
    /\ light_data' = three_point_lights
    /\ done_steps' = Append(done_steps, "setup_lighting")
    /\ pc' = next_step("setup_lighting")
    /\ UNCHANGED << runs, files, filepath, image, images, meshes, materials,
                    textures, mode, plane, nodes, links, node_vars, camera,
                    scene_camera, world, passes, render, paramVars, histVars,
                    loaded, renders, loads >>

\* setup_world: scene.world is used as it is found; None has no attributes
setup_world ==
    /\ pc = "setup_world"
    /\ IF world = None
       THEN \* world.use_nodes raises AttributeError
            /\ pc' = "raised"
            /\ first_counts' = FirstCounts(first_counts, objects)
            /\ UNCHANGED << world, done_steps >>
       ELSE /\ world' = Some([The(world) EXCEPT
                                !.use_nodes = TRUE,
                                !.color = << "0.05", "0.05", "0.05", "1.0" >>,
                                !.strength = "0.3"])
            /\ done_steps' = Append(done_steps, "setup_world")
            /\ pc' = next_step("setup_world")
            /\ UNCHANGED first_counts
    /\ UNCHANGED << runs, files, filepath, image, images, objects, active, meshes,
                    materials, textures, mode, plane, nodes, links, node_vars,
                    camera, light_data, scene_camera, passes, render, paramVars,
                    saved, save_count, loaded, renders, loads >>

\* configure_render_settings: what it makes of the scene's render settings
render_settings(r) ==
    [r EXCEPT !.engine = "CYCLES", !.cycles_samples = 128,
              !.resolution_x = 1920, !.resolution_y = 1080,
              !.resolution_percentage = 100]

configure_render_settings ==
    /\ pc = "configure_render_settings"
    /\ render' = render_settings(render)
    /\ done_steps' = Append(done_steps, "configure_render_settings")
    /\ pc' = next_step("configure_render_settings")
    /\ UNCHANGED << runs, files, filepath, image, images, docVars, paramVars,
                    histVars, loaded, renders, loads >>

\* the document as the host writes it
Document ==
    [objects |-> objects, plane |-> plane, nodes |-> nodes, links |-> links,
     camera |-> camera, light_data |-> light_data,
     scene_camera |-> scene_camera, world |-> world, render |-> render]

\* bpy.ops.wm.save_as_mainfile(filepath=str(blend_filepath))
save_as_mainfile ==
    /\ pc = "save_as_mainfile"
    /\ saved' = Some([filepath |-> blend_filepath, document |-> Document])
    /\ save_count' = save_count + 1
    /\ files' = files \cup { blend_filepath }
    /\ done_steps' = Append(done_steps, "save_as_mainfile")
    /\ pc' = next_step("save_as_mainfile")
    /\ first_counts' = IF pc' = "done" THEN FirstCounts(first_counts, objects)
                       ELSE first_counts
    /\ UNCHANGED << runs, filepath, image, images, docVars, render, paramVars,
                    loaded, renders, loads >>

\* main() is entered: on the document as it is, with the image on disk or not
Ended == { "idle", "done", "returned", "raised" }

main ==
    /\ pc \in Ended
    /\ runs < MaxRuns
    /\ runs' = runs + 1
    /\ \E present \in BOOLEAN :
          files' = IF present THEN files \cup { image_path }
                   ELSE files \ { image_path }
    /\ image' = None
    /\ save_count' = 0
    /\ done_steps' = << >>
    /\ pc' = "clear_scene"
    /\ UNCHANGED << filepath, images, docVars, render, paramVars, saved,
                    first_counts, loaded, renders, loads >>

----------------------------------------------------------------------------
(* load_image called on its own, between runs of main() *)

Paths == { image_path, << "other", IMAGE_FILENAME >>,
           << "scripts", "julia.png" >>, << "other", "julia.png" >> }

load_image_call ==
    /\ pc \in Ended
    /\ loads < MaxLoads
    /\ loads' = loads + 1
    /\ \E p \in Paths :
          /\ filepath' = Some(p)
          /\ LET r == load_image(p, files, images)
             IN  /\ image' = r.image
                 /\ images' = r.images
    /\ UNCHANGED << pc, runs, files, docVars, render, paramVars, histVars,
                    done_steps, loaded, renders >>

----------------------------------------------------------------------------
(* render_preview *)

\* scene.render.filepath = str(output_path)
set_filepath ==
    /\ pc = "render_preview"
    /\ render' = [render EXCEPT !.filepath = output_path]
    /\ pc' = "samples"
    /\ UNCHANGED << runs, files, filepath, image, images, docVars, paramVars,
                    histVars, done_steps, loaded, renders, loads >>

\* the sample count set whatever the engine
preview_samples_any_engine(r) == [r EXCEPT !.cycles_samples = RENDER_SAMPLES]

\* if scene.render.engine == 'CYCLES': scene.cycles.samples = RENDER_SAMPLES
preview_samples(r) ==
    IF r.engine = "CYCLES" THEN [r EXCEPT !.cycles_samples = RENDER_SAMPLES]
    ELSE r

set_samples ==
    /\ pc = "samples"
    /\ render' = preview_samples(render)
    /\ pc' = "format"
    /\ UNCHANGED << runs, files, filepath, image, images, docVars, paramVars,
                    histVars, done_steps, loaded, renders, loads >>

\* an output format that keeps the colour mode of the document
image_settings_format_only(r) == [r EXCEPT !.file_format = "PNG"]

\* image_settings.file_format = 'PNG'; image_settings.color_mode = 'RGB'
image_settings(r) == [r EXCEPT !.file_format = "PNG", !.color_mode = "RGB"]

set_format ==
    /\ pc = "format"
    /\ render' = image_settings(render)
    /\ pc' = "render"
    /\ UNCHANGED << runs, files, filepath, image, images, docVars, paramVars,
                    histVars, done_steps, loaded, renders, loads >>

\* the still bpy.ops.render.render(write_still=True) writes for settings r
still(r) ==
    [filepath |-> r.filepath, file_format |-> r.file_format,
     color_mode |-> r.color_mode,
     width |-> (r.resolution_x * r.resolution_percentage) \div 100,
     height |-> (r.resolution_y * r.resolution_percentage) \div 100,
     engine |-> r.engine,
     samples |-> IF r.engine = "CYCLES" THEN r.cycles_samples
                 ELSE r.eevee_samples]

render_render ==
    /\ pc = "render"
    /\ renders' = Append(renders, still(render))
    /\ files' = files \cup { render.filepath }
    /\ pc' = "rendered"
    /\ UNCHANGED << runs, filepath, image, images, docVars, render, paramVars,
                    histVars, done_steps, loaded, loads >>

----------------------------------------------------------------------------
(* The documents the scripts start on *)

InitNames == << "Cube", "Object", "Object.001", "Object.002", "Object.003" >>

RECURSIVE SeqsUpTo(_, _)
SeqsUpTo(S, n) ==
    IF n = 0 THEN { << >> }
    ELSE LET shorter == SeqsUpTo(S, n - 1)
         IN  shorter \cup { Append(q, x) : q \in shorter, x \in S }

InitObjects ==
    { [k \in 1..Len(q) |-> [type |-> q[k][1], name |-> InitNames[k],
                            select |-> q[k][2], location |-> << 0, 0, 0 >>]] :
      q \in SeqsUpTo({ "MESH", "CAMERA", "LIGHT" } \X BOOLEAN, MaxInitObjects) }

\* a world as the host's startup document has it, one without nodes, or none
InitWorlds ==
    { None,
      Some([use_nodes |-> TRUE, color |-> << "0.05", "0.05", "0.05", "1.0" >>,
            strength |-> "1.0"]),
      Some([use_nodes |-> FALSE, color |-> << "0.0", "0.0", "0.0", "1.0" >>,
            strength |-> "1.0"]) }

\* render settings a document can hold
Renders ==
    [engine : { "CYCLES", "BLENDER_EEVEE", "BLENDER_WORKBENCH" },
     cycles_samples : { 128, 32 }, eevee_samples : { 64, 16 },
     resolution_x : { 1920, 1280 }, resolution_y : { 1080, 720 },
     resolution_percentage : { 100, 50 },
     filepath : { << "tmp" >>, output_path },
     file_format : { "PNG", "JPEG" }, color_mode : { "RGB", "RGBA", "BW" }]

startup_render ==
    [engine |-> "BLENDER_EEVEE", cycles_samples |-> 32, eevee_samples |-> 64,
     resolution_x |-> 1920, resolution_y |-> 1080,
     resolution_percentage |-> 100, filepath |-> << "tmp" >>,
     file_format |-> "PNG", color_mode |-> "RGBA"]

edited_render ==
    [engine |-> "BLENDER_WORKBENCH", cycles_samples |-> 32, eevee_samples |-> 16,
     resolution_x |-> 1280, resolution_y |-> 720,
     resolution_percentage |-> 50, filepath |-> << "tmp" >>,
     file_format |-> "JPEG", color_mode |-> "BW"]

FirstCamera(objs) ==
    IF CountType(objs, "CAMERA") = 0 THEN None
    ELSE Some(SelectSeq(objs, LAMBDA o : o.type = "CAMERA")[1].name)

NothingBuilt ==
    /\ plane = None
    /\ nodes = {}
    /\ links = {}
    /\ node_vars = None
    /\ camera = None
    /\ light_data = << >>
    /\ passes = 0
    /\ mode = "OBJECT"
    /\ active = 0

NothingRun ==
    /\ runs = 0
    /\ loads = 0
    /\ filepath = None
    /\ image = None
    /\ saved = None
    /\ save_count = 0
    /\ done_steps = << >>
    /\ first_counts = None
    /\ renders = << >>

MainParams ==
    /\ subdivision_level = SUBDIVISION_LEVEL
    /\ displacement_strength = DISPLACEMENT_STRENGTH
    /\ plane_size = PLANE_SIZE

the_image == [name |-> IMAGE_FILENAME, filepath |-> image_path]

(* The builder: main() run up to MaxRuns times on any starting document *)
Init ==
    /\ pc = "idle"
    /\ files = {}
    /\ objects \in InitObjects
    /\ \E orphans \in 0..MaxOrphans :
          meshes = CountType(objects, "MESH") + orphans
    /\ materials \in 0..MaxOrphans
    /\ textures = {}
    /\ images \in { << >>, << the_image >> }
    /\ scene_camera = FirstCamera(objects)
    /\ world \in InitWorlds
    /\ render \in { startup_render, edited_render }
    /\ loaded = render
    /\ NothingBuilt
    /\ NothingRun
    /\ MainParams

Next ==
    \/ main
    \/ clear_scene
    \/ main_load_image
    \/ create_heightmap_mesh
    \/ setup_camera
    \/ setup_lighting
    \/ setup_world
    \/ configure_render_settings
    \/ save_as_mainfile

Spec == Init /\ [][Next]_vars

(* create_heightmap_mesh called with a subdivision level of 0..MaxLevel, or
   the level main() passes *)
InitMesh ==
    /\ pc = "create_heightmap_mesh"
    /\ files = { image_path }
    /\ objects = << >>
    /\ meshes \in 0..MaxOrphans
    /\ materials \in 0..MaxOrphans
    /\ textures = {}
    /\ images = << the_image >>
    /\ scene_camera = None
    /\ world \in InitWorlds
    /\ render = startup_render
    /\ loaded = render
    /\ NothingBuilt
    /\ NothingRun
    /\ subdivision_level \in (0..MaxLevel) \cup { SUBDIVISION_LEVEL }
    /\ displacement_strength \in { 1, DISPLACEMENT_STRENGTH }
    /\ plane_size = PLANE_SIZE

NextMesh == create_heightmap_mesh

SpecMesh == InitMesh /\ [][NextMesh]_vars

(* load_image calls on any paths, between runs of main() *)
InitLoad ==
    /\ pc = "idle"
    /\ files \in SUBSET Paths
    /\ objects = << >>
    /\ meshes = 0
    /\ materials = 0
    /\ textures = {}
    /\ images \in { << >>, << the_image >> }
    /\ scene_camera = None
    /\ world = Some([use_nodes |-> TRUE,
                     color |-> << "0.05", "0.05", "0.05", "1.0" >>,
                     strength |-> "1.0"])
    /\ render = startup_render
    /\ loaded = render
    /\ NothingBuilt
    /\ NothingRun
    /\ MainParams

NextLoad == Next \/ load_image_call

SpecLoad == InitLoad /\ [][NextLoad]_vars

(* render_preview on a document the host has loaded *)
InitRender ==
    /\ pc = "render_preview"
    /\ files = { blend_filepath }
    /\ objects = << >>
    /\ meshes = 0
    /\ materials = 0
    /\ textures = {}
    /\ images = << >>
    /\ scene_camera = None
    /\ world = None
    /\ render \in Renders
    /\ loaded = render
    /\ NothingBuilt
    /\ NothingRun
    /\ MainParams

NextRender ==
    \/ set_filepath
    \/ set_samples
    \/ set_format
    \/ render_render

SpecRender == InitRender /\ [][NextRender]_vars

----------------------------------------------------------------------------
(* The claims *)

RunEnded == runs >= 1 /\ pc \in { "done", "returned", "raised" }
ImagePresent == image_path \in files
WorldEntries == IF world = None THEN 0 ELSE 1
BuiltCounts == [t \in { "MESH", "CAMERA", "LIGHT" } |->
                  CASE t = "MESH" -> 1 [] t = "CAMERA" -> 1 [] t = "LIGHT" -> 3]

\* C1: whatever document main() starts on, a run with the image file present
\* runs to completion and ends with exactly one mesh object, one camera
\* object, three light objects and one world entry.
C1_BuildCompletes ==
    (RunEnded /\ ImagePresent) =>
        /\ pc = "done"
        /\ Counts(objects) = BuiltCounts
        /\ WorldEntries = 1

\* C2: in a run with the image file missing, load_image returns None without
\* raising and main() returns early: after the clear the run is only ever at
\* the load or returned, and never holds a mesh, material, camera or light.
C2_MissingImageReturnsEarly ==
    (runs >= 1 /\ ~ImagePresent /\ pc # "clear_scene") =>
        /\ pc \in { "load_image", "returned" }
        /\ image = None
        /\ objects = << >>
        /\ meshes = 0
        /\ materials = 0
        /\ plane = None
        /\ camera = None
        /\ light_data = << >>
        /\ nodes = {}
        /\ pc = "returned" => done_steps = << "clear_scene", "load_image" >>

C2_Witness ==
    /\ pc = "returned"
    /\ ~ImagePresent
    /\ runs = 2
    /\ saved # None

\* C3: every run of main() with the image present, the first or a later one,
\* ends with the same number of scene objects of each kind as the first such
\* run ended with.
C3_SameCountsEveryRun ==
    (RunEnded /\ pc # "returned" /\ first_counts # None) =>
        Counts(objects) = The(first_counts)

C3_Witness ==
    /\ pc = "done"
    /\ runs >= 2
    /\ Cardinality(textures) >= 2
    /\ Len(objects) = 5

\* C4: the plane starts with 4 vertices and has (2^k + 1)^2 vertices after k
\* subdivide passes; once the loop is left, k is the subdivision level N.
AfterLoop == { "material", "nodes_clear", "nodes_new", "links_new", "displace",
               "setup_camera" }
C4_VertexCount ==
    plane # None =>
        /\ The(plane).geom.verts = (2 ^ passes + 1) * (2 ^ passes + 1)
        /\ pc \in AfterLoop => passes = subdivision_level

C4_Witness ==
    /\ pc = "setup_camera"
    /\ subdivision_level = 3
    /\ plane # None
    /\ The(plane).geom.verts = 81

\* C5 as stated: once render_preview has run, exactly one render has been
\* written, to the configured output path, as PNG in RGB, at 1920x1080.
C5_RenderIsFullHD ==
    pc = "rendered" =>
        /\ Len(renders) = 1
        /\ renders[1].filepath = output_path
        /\ renders[1].file_format = "PNG"
        /\ renders[1].color_mode = "RGB"
        /\ renders[1].width = 1920
        /\ renders[1].height = 1080

\* C5 amended: exactly one render is written, and only by the final step, to
\* the configured output path, as PNG in RGB, at the resolution the loaded
\* document holds; that is 1920x1080 when the document holds the render
\* settings the builder configures.
C5_RenderAtDocumentResolution ==
    /\ pc # "rendered" => renders = << >>
    /\ pc = "rendered" =>
        /\ Len(renders) = 1
        /\ renders[1].filepath = output_path
        /\ output_path \in files
        /\ renders[1].file_format = "PNG"
        /\ renders[1].color_mode = "RGB"
        /\ renders[1].width =
             (loaded.resolution_x * loaded.resolution_percentage) \div 100
        /\ renders[1].height =
             (loaded.resolution_y * loaded.resolution_percentage) \div 100
        /\ loaded = render_settings(loaded) =>
             renders[1].width = 1920 /\ renders[1].height = 1080

C5_Witness ==
    /\ pc = "rendered"
    /\ loaded.engine = "BLENDER_EEVEE"
    /\ loaded.color_mode = "RGBA"
    /\ loaded.file_format = "JPEG"
    /\ renders[1].width = 640
    /\ renders[1].height = 360

\* C6: no two entries of bpy.data.images are for the same basename, and a
\* load_image call on an existing path returns the already-loaded image named
\* after the path's basename when there is one, leaving the collection as it
\* is, and otherwise appends one image loaded from that path; on a missing
\* path it returns None and loads nothing.
NoTwoForOneBasename ==
    \A a, b \in 1..Len(images) :
        a # b => basename(images[a].filepath) # basename(images[b].filepath)
IsLoadCall == (pc = "load_image" /\ pc' # pc) \/ loads' = loads + 1
LoadCallEffect ==
    LET p == The(filepath')
    IN  IF p \notin files
        THEN image' = None /\ images' = images
        ELSE /\ image' # None
             /\ The(image').name = basename(p)
             /\ IF basename(p) \in ImageNames(images)
                THEN /\ images' = images
                     /\ \E k \in 1..Len(images) : images[k] = The(image')
                ELSE /\ images' = Append(images, The(image'))
                     /\ The(image').filepath = p
C6_OneImagePerBasename ==
    /\ []NoTwoForOneBasename
    /\ [][IsLoadCall => LoadCallEffect]_vars

C6_Witness ==
    /\ Len(images) = 2
    /\ saved # None
    /\ filepath = Some(<< "other", IMAGE_FILENAME >>)
    /\ image = Some(the_image)

\* C7: once render_preview has chosen the samples, a document whose engine is
\* CYCLES has its Cycles sample count at RENDER_SAMPLES (in place of the 128
\* of the builder) and any other document has the sample settings it was
\* loaded with; the engine and the resolution are those of the loaded
\* document throughout, and the render is made with these settings.
C7_SamplesByEngine ==
    /\ render.engine = loaded.engine
    /\ render.resolution_x = loaded.resolution_x
    /\ render.resolution_y = loaded.resolution_y
    /\ render.resolution_percentage = loaded.resolution_percentage
    /\ render.eevee_samples = loaded.eevee_samples
    /\ pc \in { "format", "render", "rendered" } =>
          render.cycles_samples =
             IF loaded.engine = "CYCLES" THEN RENDER_SAMPLES
             ELSE loaded.cycles_samples
    /\ pc = "rendered" =>
          /\ renders[1].engine = loaded.engine
          /\ loaded.engine = "CYCLES" => renders[1].samples = RENDER_SAMPLES

C7_Witness ==
    /\ pc = "rendered"
    /\ loaded = render_settings(loaded)
    /\ loaded.cycles_samples = 128
    /\ render.cycles_samples = 64
    /\ renders[1].samples = 64

\* C8: a run of main() that completes has done clear scene, load image, build
\* mesh, place camera, add lights, configure world, configure render settings
\* and save in this order; the camera is only ever placed with its target
\* mesh in the scene; the one save of the run is its last step, and the saved
\* document holds the mesh, camera, lights, world and render settings.
C8_OrderedStepsThenOneSave ==
    /\ camera # None => plane # None
    /\ save_count >= 1 => pc = "done"
    /\ pc = "done" =>
        /\ done_steps = << "clear_scene", "load_image", "create_heightmap_mesh",
                           "setup_camera", "setup_lighting", "setup_world",
                           "configure_render_settings", "save_as_mainfile" >>
        /\ save_count = 1
        /\ saved = Some([filepath |-> blend_filepath, document |-> Document])
        /\ Counts(The(saved).document.objects) = BuiltCounts
        /\ The(saved).document.plane # None
        /\ The(saved).document.camera # None
        /\ Len(The(saved).document.light_data) = 3
        /\ The(saved).document.world # None
        /\ The(The(saved).document.world).strength = "0.3"
        /\ The(saved).document.render.engine = "CYCLES"
        /\ The(saved).document.render.cycles_samples = 128
        /\ The(saved).document.render.resolution_x = 1920
        /\ The(saved).document.render.resolution_y = 1080

C8_Witness ==
    /\ pc = "done"
    /\ save_count = 1
    /\ runs = 2
    /\ Len(done_steps) = 8

\* C9: once create_heightmap_mesh has made its links, the node tree holds
\* exactly four nodes (material output, principled shader, image texture,
\* colour ramp), none of them a default node of the material, and exactly two
\* links, image-texture Color -> shader Base Color and shader BSDF -> output
\* Surface; no link starts or ends at the colour ramp.
NodeOfType(t) == CHOOSE n \in nodes : n.type = t
C9_FourNodesTwoLinks ==
    pc \in { "displace", "setup_camera" } =>
        /\ Cardinality(nodes) = 4
        /\ { n.type : n \in nodes } =
             { "ShaderNodeOutputMaterial", "ShaderNodeBsdfPrincipled",
               "ShaderNodeTexImage", "ShaderNodeValToRGB" }
        /\ nodes \cap default_nodes = {}
        /\ NodeOfType("ShaderNodeTexImage").image = image
        /\ links =
             { [from_node |-> NodeOfType("ShaderNodeTexImage").name,
                from_socket |-> "Color",
                to_node |-> NodeOfType("ShaderNodeBsdfPrincipled").name,
                to_socket |-> "Base Color"],
               [from_node |-> NodeOfType("ShaderNodeBsdfPrincipled").name,
                from_socket |-> "BSDF",
                to_node |-> NodeOfType("ShaderNodeOutputMaterial").name,
                to_socket |-> "Surface"] }
        /\ \A l \in links :
              /\ l.from_node # NodeOfType("ShaderNodeValToRGB").name
              /\ l.to_node # NodeOfType("ShaderNodeValToRGB").name

C9_Witness ==
    /\ pc = "setup_camera"
    /\ Cardinality(nodes) = 4
    /\ Cardinality(links) = 2
    /\ \E n \in nodes : n.type = "ShaderNodeValToRGB"

\* C10: a run of main() that returns early for want of the image has removed
\* every object, mesh and material of the document it started on and has
\* saved nothing.
C10_FailedBuildClearsUnsaved ==
    pc = "returned" =>
        /\ objects = << >>
        /\ meshes = 0
        /\ materials = 0
        /\ scene_camera = None
        /\ save_count = 0

C10_Witness ==
    /\ pc = "returned"
    /\ runs = 2
    /\ saved # None
    /\ Counts(The(saved).document.objects) = BuiltCounts
    /\ objects = << >>

====
